---------------------------- MODULE Spec2Model ----------------------------
(***************************************************************************)
(* Model of site.py: the replacement cache behind fetch_replacements_data, *)
(* the base-schedule filter get_day_schedule, the overlay                  *)
(* apply_replacements_to_schedule and the memo cache of                    *)
(* get_merged_daily_schedule, run by cooperative tasks on one event loop.  *)
(*                                                                         *)
(* Conventions.  A Python str is a sequence of tokens (a token stands for  *)
(* a run of characters that the code never splits); the tokens "(", ")",   *)
(* "/" and " " are the characters the code searches for.  Cyrillic         *)
(* literals of the source are transliterated.  A datetime.date is its      *)
(* proleptic Gregorian ordinal (date.toordinal()); a datetime.datetime is  *)
(* the number of minutes since datetime.min.  None in a date field is the  *)
(* value None below.                                                       *)
(***************************************************************************)
EXTENDS Integers, Sequences, FiniteSets, Bags, TLC

VARIABLES
    now,                \* the wall clock, datetime.datetime.now()
    REPLACEMENTS_CACHE, \* the module-level dict of the same name
    MERGED_SCHEDULE_CACHE, \* the module-level dict of the same name
    SCHEDULE,           \* the loaded base schedule of the groups
    inflight,           \* the calls suspended in an upstream request (a bag)
    lastPublished,      \* history: the result of the refresh that completed last
    lastOutcomes,       \* history: what the two sources answered in that refresh
    lastReturn,         \* history: the call that returned last and what it returned
    lastStart,          \* history: the clock when a call without force_update last
                        \* went on to the upstream requests
    m                   \* the straight-line merge scenario (SpecMerge)

vars == <<now, REPLACEMENTS_CACHE, MERGED_SCHEDULE_CACHE, SCHEDULE, inflight,
          lastPublished, lastOutcomes, lastReturn, lastStart, m>>

---------------------------------------------------------------------------
(* Bounds of the model.                                                    *)

NTasks == 2
MaxTicks == 2
MaxRows == 2
TickMinutes == 15

---------------------------------------------------------------------------
(* Program constants.                                                      *)

COOLDOWN_MINUTES == 30
NHeaders == 6
REPLACEMENTS_HEADERS == <<"N", "Gruppa", "Nomer_pary", "Distsiplina_po_raspisaniyu",
                          "Distsiplina_po_zamene", "Auditoriya">>
None == -1
NE_UKAZAN == <<"Ne ukazan">>
NE_UKAZANA == <<"Ne ukazana">>
NET_PARY == <<"(", "Net pary", ")">>
CANCEL_MARK == <<"X", " ", "(", "Otmena/Perenos", ")">>
DATA_NE_UKAZANA == <<"Data ne ukazana">>
NEIZVESTNO == <<"Neizvestno">>
DAY_NAMES == <<"Ponedelnik", "Vtornik", "Sreda", "Chetverg", "Pyatnitsa",
               "Subbota", "Voskresenye">>

---------------------------------------------------------------------------
(* Python built-ins used by the code.                                      *)

\* dict.get(key, default)
Get(d, k, default) == IF k \in DOMAIN d THEN d[k] ELSE default

\* dict.update / item assignment: the keys of u overwrite those of d
Update(d, u) == [k \in DOMAIN d \cup DOMAIN u |-> IF k \in DOMAIN u THEN u[k] ELSE d[k]]

\* str.strip() on a token sequence: leading and trailing blanks removed
RECURSIVE LStrip(_)
LStrip(s) == IF s # <<>> /\ Head(s) = " " THEN LStrip(Tail(s)) ELSE s

RECURSIVE RStrip(_)
RStrip(s) == IF s # <<>> /\ s[Len(s)] = " " THEN RStrip(SubSeq(s, 1, Len(s) - 1)) ELSE s

Strip(s) == RStrip(LStrip(s))

\* whether sub occurs in s at position i
OccursAt(s, sub, i) == /\ i + Len(sub) - 1 <= Len(s)
                       /\ SubSeq(s, i, i + Len(sub) - 1) = sub

\* the `in` operator on strings
Contains(s, sub) == \E i \in 1..(Len(s) + 1) : OccursAt(s, sub, i)

\* str.replace(sub, ""): every non-overlapping occurrence, left to right
RECURSIVE Remove(_, _)
Remove(s, sub) ==
    IF s = <<>> \/ sub = <<>> THEN s
    ELSE IF OccursAt(s, sub, 1)
         THEN Remove(SubSeq(s, Len(sub) + 1, Len(s)), sub)
         ELSE <<Head(s)>> \o Remove(Tail(s), sub)

\* str.split(sep) for a one-character separator
RECURSIVE Split(_, _)
Split(s, sep) ==
    IF \A i \in 1..Len(s) : s[i] # sep THEN <<s>>
    ELSE LET i == CHOOSE j \in 1..Len(s) : s[j] = sep /\ \A k \in 1..(j - 1) : s[k] # sep
         IN  <<SubSeq(s, 1, i - 1)>> \o Split(SubSeq(s, i + 1, Len(s)), sep)

\* str(int) and int(str) for the pair numbers of a timetable
DIGITS == <<"0", "1", "2", "3", "4", "5", "6", "7", "8", "9">>
RECURSIVE Str(_)
Str(n) == IF n < 10 THEN <<DIGITS[n + 1]>> ELSE Str(n \div 10) \o <<DIGITS[(n % 10) + 1]>>

DigitVal(c) == (CHOOSE i \in 1..10 : DIGITS[i] = c) - 1
RECURSIVE IntOf(_)
IntOf(s) == IF Len(s) = 1 THEN DigitVal(s[1])
            ELSE 10 * IntOf(SubSeq(s, 1, Len(s) - 1)) + DigitVal(s[Len(s)])

---------------------------------------------------------------------------
(* datetime.date: ordinals, weekday() and isocalendar().                   *)

IsLeap(y) == y % 4 = 0 /\ (y % 100 # 0 \/ y % 400 = 0)
DaysBeforeYear(y) == (y - 1) * 365 + (y - 1) \div 4 - (y - 1) \div 100 + (y - 1) \div 400
DaysInMonth(y, mo) == IF mo = 2 THEN (IF IsLeap(y) THEN 29 ELSE 28)
                      ELSE IF mo \in {4, 6, 9, 11} THEN 30 ELSE 31
RECURSIVE DaysBeforeMonth(_, _)
DaysBeforeMonth(y, mo) == IF mo = 1 THEN 0
                          ELSE DaysBeforeMonth(y, mo - 1) + DaysInMonth(y, mo - 1)

\* datetime.date(y, mo, d); None stands for the ValueError of a bad date
MakeDate(y, mo, d) ==
    IF mo \in 1..12 /\ y \in 1..9999 /\ d >= 1 /\ d <= DaysInMonth(y, mo)
    THEN DaysBeforeYear(y) + DaysBeforeMonth(y, mo) + d
    ELSE None

\* date.weekday(): Monday is 0
Weekday(d) == (d + 6) % 7

RECURSIVE YearOf(_, _)
YearOf(d, y) == IF d <= DaysBeforeYear(y + 1) THEN y ELSE YearOf(d, y + 1)
Year(d) == YearOf(d, d \div 366 + 1)

\* Monday of ISO week 1 of year y
IsoWeek1Monday(y) ==
    LET firstday == DaysBeforeYear(y) + 1
        firstweekday == (firstday + 6) % 7
        monday == firstday - firstweekday
    IN  IF firstweekday > 3 THEN monday + 7 ELSE monday

\* date.isocalendar()[1]
IsoWeek(d) ==
    LET y == Year(d)
        w == IF d >= IsoWeek1Monday(y) THEN (d - IsoWeek1Monday(y)) \div 7 ELSE -1
    IN  IF w < 0 THEN (d - IsoWeek1Monday(y - 1)) \div 7 + 1
        ELSE IF w >= 52 /\ d >= IsoWeek1Monday(y + 1) THEN 1
        ELSE w + 1

MinutesPerDay == 24 * 60
\* datetime.date.today() at clock value t
Today(t) == t \div MinutesPerDay + 1


---------------------------------------------------------------------------
(* parse_russian_date                                                      *)

MONTHS == <<"yanvarya", "fevralya", "marta", "aprelya", "maya", "iyunya", "iyulya",
            "avgusta", "sentyabrya", "oktyabrya", "noyabrya", "dekabrya">>

IsDigit(c) == \E i \in 1..10 : DIGITS[i] = c
IsMonth(c) == \E i \in 1..12 : MONTHS[i] = c
MonthNo(c) == CHOOSE i \in 1..12 : MONTHS[i] = c

\* the pattern "na D{1,2} <month> YYYY goda" matched at position i with nd day digits
DateMatchAt(s, i, nd) ==
    /\ i + nd + 10 <= Len(s)
    /\ s[i] = "na" /\ s[i + 1] = " "
    /\ \A k \in 1..nd : IsDigit(s[i + 1 + k])
    /\ s[i + nd + 2] = " "
    /\ IsMonth(s[i + nd + 3])
    /\ s[i + nd + 4] = " "
    /\ \A k \in 1..4 : IsDigit(s[i + nd + 4 + k])
    /\ s[i + nd + 9] = " "
    /\ s[i + nd + 10] = "goda"

parse_russian_date(s) ==
    LET hits == {p \in (1..Len(s)) \X {1, 2} : DateMatchAt(s, p[1], p[2])}
    IN  IF hits = {} THEN None
        ELSE LET i  == CHOOSE i \in 1..Len(s) :
                          /\ \E nd \in {1, 2} : <<i, nd>> \in hits
                          /\ \A q \in hits : i <= q[1]
                 nd == IF <<i, 2>> \in hits THEN 2 ELSE 1
             IN  MakeDate(IntOf(SubSeq(s, i + nd + 5, i + nd + 8)),
                          MonthNo(s[i + nd + 3]),
                          IntOf(SubSeq(s, i + 2, i + nd + 1)))

---------------------------------------------------------------------------
(* get_week_type, get_teacher_from_lesson, get_day_schedule                *)

\* get_week_type() evaluated when the clock shows t
get_week_type(t) == IsoWeek(Today(t)) % 2 = 0

\* re.search(r'\((.*?)\)', s): the first "(" and the first ")" after it
HasParen(s) == \E i \in 1..Len(s) : s[i] = "(" /\ \E j \in (i + 1)..Len(s) : s[j] = ")"
ParenOpen(s) == CHOOSE i \in 1..Len(s) : s[i] = "(" /\ \A k \in 1..(i - 1) : s[k] # "("
ParenClose(s) == CHOOSE j \in (ParenOpen(s) + 1)..Len(s) :
                     s[j] = ")" /\ \A k \in (ParenOpen(s) + 1)..(j - 1) : s[k] # ")"

\* returns <<lesson_display, teacher_display>>
get_teacher_from_lesson(lesson_name) ==
    IF HasParen(lesson_name)
    THEN LET g0 == SubSeq(lesson_name, ParenOpen(lesson_name), ParenClose(lesson_name))
             g1 == SubSeq(lesson_name, ParenOpen(lesson_name) + 1, ParenClose(lesson_name) - 1)
         IN  <<Strip(Remove(lesson_name, g0)), Strip(g1)>>
    ELSE <<Strip(lesson_name), NE_UKAZAN>>

\* the body of the loop of get_day_schedule for one kept pair
NewPair(pair) ==
    LET p1 == Update(pair, [is_replacement |-> FALSE,
                            old_lesson |-> pair["lesson"],
                            old_classroom |-> Get(pair, "classroom", NE_UKAZANA)])
        lt == get_teacher_from_lesson(p1["lesson"])
    IN  Update(p1, [lesson |-> lt[1],
                    teacher |-> IF lt[2] # NE_UKAZAN THEN lt[2]
                                ELSE Get(p1, "teacher", NE_UKAZAN)])

\* IsCurrent with the two parities exchanged
IsCurrent_Swapped(pair, week_type) ==
    LET pair_type == Get(pair, "type", "Ezhenedelno")
    IN  \/ pair_type = "Ezhenedelno"
        \/ (pair_type = "Chetnaya" /\ ~week_type)
        \/ (pair_type = "Nechetnaya" /\ week_type)

IsCurrent(pair, week_type) ==
    LET pair_type == Get(pair, "type", "Ezhenedelno")
    IN  \/ pair_type = "Ezhenedelno"
        \/ (pair_type = "Chetnaya" /\ week_type)
        \/ (pair_type = "Nechetnaya" /\ ~week_type)

RECURSIVE FilterPairs(_, _)
FilterPairs(day_schedule, week_type) ==
    IF day_schedule = <<>> THEN <<>>
    ELSE LET pair == Head(day_schedule)
             rest == FilterPairs(Tail(day_schedule), week_type)
         IN  IF IsCurrent(pair, week_type) /\ Get(pair, "lesson", None) # NET_PARY
             THEN <<NewPair(pair)>> \o rest
             ELSE rest

SortKey(pair) == LET v == Get(pair, "pair_num", 0) IN v

\* sorted(..., key=...): stable
RECURSIVE InsertSorted(_, _)
InsertSorted(sorted, pair) ==
    IF sorted = <<>> THEN <<pair>>
    ELSE IF SortKey(pair) < SortKey(Head(sorted))
         THEN <<pair>> \o sorted
         ELSE <<Head(sorted)>> \o InsertSorted(Tail(sorted), pair)

RECURSIVE Sorted(_)
Sorted(s) == IF s = <<>> THEN <<>>
             ELSE InsertSorted(Sorted(SubSeq(s, 1, Len(s) - 1)), s[Len(s)])

get_day_schedule(schedule_data, group_name, day_name, week_type) ==
    IF group_name \notin DOMAIN schedule_data THEN <<>>
    ELSE Sorted(FilterPairs(Get(schedule_data[group_name], day_name, <<>>), week_type))

\* get_day_schedule_call without pair.copy() (line 177): the fields of lines
\* 178-184 are assigned to the slots of the store
get_day_schedule_call_NoCopy(schedule_data, group_name, day_name, week_type) ==
    [ret |-> get_day_schedule(schedule_data, group_name, day_name, week_type),
     schedule_data |->
         IF group_name \in DOMAIN schedule_data /\ day_name \in DOMAIN schedule_data[group_name]
         THEN LET day_schedule == schedule_data[group_name][day_name]
                  written == [i \in 1..Len(day_schedule) |->
                                 IF /\ IsCurrent(day_schedule[i], week_type)
                                    /\ Get(day_schedule[i], "lesson", None) # NET_PARY
                                 THEN NewPair(day_schedule[i])
                                 ELSE day_schedule[i]]
              IN  [schedule_data EXCEPT ![group_name][day_name] = written]
         ELSE schedule_data]

\* what a call of get_day_schedule returns and what it leaves in the store it
\* was passed: every kept pair is a copy (line 177), the list is new (line 170)
get_day_schedule_call(schedule_data, group_name, day_name, week_type) ==
    [ret |-> get_day_schedule(schedule_data, group_name, day_name, week_type),
     schedule_data |-> schedule_data]

---------------------------------------------------------------------------
(* apply_replacements_to_schedule                                          *)

\* the keys one row is indexed under
RowKeys(replacement) ==
    LET pair_num == Get(replacement, "Nomer_pary", <<>>)
        group_raw == Get(replacement, "Gruppa", <<>>)
        groups == Split(group_raw, "/")
    IN  IF pair_num # <<>> /\ group_raw # <<>>
        THEN {<<Strip(groups[i]), pair_num>> : i \in 1..Len(groups)}
        ELSE {}

\* ReplacementsDict with a key kept for the row that set it first
RECURSIVE ReplacementsDict_FirstWins(_)
ReplacementsDict_FirstWins(all_replacements) ==
    IF all_replacements = <<>> THEN <<>>
    ELSE LET n == Len(all_replacements)
             before == ReplacementsDict_FirstWins(SubSeq(all_replacements, 1, n - 1))
             last == all_replacements[n]
         IN  [k \in DOMAIN before \cup RowKeys(last) |->
                 IF k \in DOMAIN before THEN before[k] ELSE last]

\* replacements_dict after the first loop: a later row overwrites an earlier one
RECURSIVE ReplacementsDict(_)
ReplacementsDict(all_replacements) ==
    IF all_replacements = <<>> THEN <<>>
    ELSE LET n == Len(all_replacements)
             before == ReplacementsDict(SubSeq(all_replacements, 1, n - 1))
             last == all_replacements[n]
         IN  [k \in DOMAIN before \cup RowKeys(last) |->
                 IF k \in RowKeys(last) THEN last ELSE before[k]]

\* UserGroups with the entity name taken as one token (no split on "/")
UserGroups_NoSplit(pair, entity_name, is_teacher) ==
    IF ~is_teacher
    THEN <<Strip(entity_name)>>
    ELSE <<Get(pair, "group", <<"???">>)>>

UserGroups(pair, entity_name, is_teacher) ==
    IF ~is_teacher
    THEN LET parts == Split(entity_name, "/") IN [i \in 1..Len(parts) |-> Strip(parts[i])]
    ELSE <<Get(pair, "group", <<"???">>)>>

PairNumStr(pair) == IF "pair_num" \in DOMAIN pair THEN Str(pair["pair_num"]) ELSE <<"None">>

\* the body of `if replacement:` for one pair
Replaced(pair, replacement) ==
    LET new_lesson_raw == Get(replacement, "Distsiplina_po_zamene", NEIZVESTNO)
        new_classroom == Get(replacement, "Auditoriya", NE_UKAZANA)
        lt == get_teacher_from_lesson(new_lesson_raw)
    IN  Update(pair, [lesson |-> lt[1],
                      classroom |-> new_classroom,
                      teacher |-> IF lt[2] # NE_UKAZAN THEN lt[2]
                                  ELSE Get(pair, "teacher", NE_UKAZAN),
                      is_replacement |-> TRUE,
                      is_cancellation |-> Contains(new_lesson_raw, CANCEL_MARK)])

\* MergePair with the lookup by group alone: any indexed row of the group is
\* taken, whatever its pair number
MergePair_GroupOnly(pair, dict, entity_name, is_teacher) ==
    LET groups == UserGroups(pair, entity_name, is_teacher)
        keys(i) == {k \in DOMAIN dict : k[1] = groups[i]}
        hit(i) == keys(i) # {}
    IN  IF \E i \in 1..Len(groups) : hit(i)
        THEN LET i == CHOOSE i \in 1..Len(groups) : hit(i) /\ \A k \in 1..(i - 1) : ~hit(k)
             IN  Replaced(pair, dict[CHOOSE k \in keys(i) : TRUE])
        ELSE pair

\* the second loop for one pair: the first candidate group with an indexed row
MergePair(pair, dict, entity_name, is_teacher) ==
    LET groups == UserGroups(pair, entity_name, is_teacher)
        hit(i) == <<groups[i], PairNumStr(pair)>> \in DOMAIN dict
    IN  IF \E i \in 1..Len(groups) : hit(i)
        THEN LET i == CHOOSE i \in 1..Len(groups) : hit(i) /\ \A k \in 1..(i - 1) : ~hit(k)
             IN  Replaced(pair, dict[<<groups[i], PairNumStr(pair)>>])
        ELSE pair

\* apply_replacements_to_schedule without the early return of line 193 and with
\* is_replacement set for every pair of the second loop
apply_replacements_MarkAll(base_schedule, all_replacements, entity_name, is_teacher) ==
    LET dict == ReplacementsDict(all_replacements)
    IN  [i \in 1..Len(base_schedule) |->
            Update(MergePair(base_schedule[i], dict, entity_name, is_teacher),
                   [is_replacement |-> TRUE])]

apply_replacements_to_schedule(base_schedule, all_replacements, entity_name, is_teacher) ==
    IF all_replacements = <<>> THEN base_schedule
    ELSE LET dict == ReplacementsDict(all_replacements)
         IN  [i \in 1..Len(base_schedule) |->
                 MergePair(base_schedule[i], dict, entity_name, is_teacher)]

---------------------------------------------------------------------------
(* format_schedule_to_kwgt_text: what one line shows for a pair            *)

\* the value substituted for %LESSON%
KwgtLesson(pair) ==
    IF Get(pair, "is_cancellation", FALSE)
    THEN Get(pair, "old_lesson", <<"???">>)
    ELSE Get(pair, "lesson", <<"Ne ukazano">>)

\* the value substituted for %ROOM%
KwgtRoom(pair) ==
    IF Get(pair, "is_cancellation", FALSE)
    THEN Get(pair, "old_classroom", <<"N/U">>)
    ELSE Get(pair, "classroom", <<"N/U">>)

---------------------------------------------------------------------------
(* The data the scenarios draw from: a loaded schedule.json and the rows   *)
(* and pages the two upstream sources can serve.                           *)

Slot(n, lesson, room) == [pair_num |-> n, lesson |-> lesson, classroom |-> room]

StoreA ==
    (<<"G1">> :> ("Ponedelnik" :>
        << Update(Slot(2, <<"Phys">>, <<"102">>), [type |-> "Chetnaya", teacher |-> <<"Jones">>]),
           Slot(1, <<"Math", " ", "(", "Smith", ")">>, <<"101">>),
           Update(Slot(3, <<"Chem", " ", "(", "Lee", ")">>, <<"103">>), [type |-> "Nechetnaya"]),
           Update(Slot(4, NET_PARY, <<"104">>), [type |-> "Ezhenedelno"]) >>))
    @@ (<<"A", "/", "B">> :> ("Ponedelnik" :>
        << Update(Slot(1, <<"Hist">>, <<"201">>), [type |-> "Ezhenedelno", group |-> <<"B">>]) >>))

StoreB ==
    (<<"G1">> :> ("Ponedelnik" :>
        << Update(Slot(1, <<"Math", " ", "(", "Smith", ")">>, <<"101">>), [type |-> "Ezhenedelno"]) >>
      @@ "Vtornik" :>
        << Update(Slot(2, NET_PARY, <<"101">>), [type |-> "Chetnaya"]),
           [pair_num |-> 1, lesson |-> <<"Art">>, type |-> "Nechetnaya"] >>))

Stores == {StoreA, StoreB}

Row(n, group, pair_num, old, new, room) ==
    [N |-> n, Gruppa |-> group, Nomer_pary |-> pair_num,
     Distsiplina_po_raspisaniyu |-> old, Distsiplina_po_zamene |-> new, Auditoriya |-> room]

RowG1 == Row(<<"1">>, <<"G1">>, <<"1">>, <<"Math">>, <<"Bio", " ", "(", "Kim", ")">>, <<"204">>)
RowCancel == Row(<<"2">>, <<"G1">>, <<"1">>, <<"Math">>, CANCEL_MARK \o <<" ", "Physics">>, <<"305">>)
RowB == Row(<<"3">>, <<"B">>, <<"1">>, <<"Hist">>, <<"Geo">>, <<"202">>)
RowJoint == Row(<<"4">>, <<"A", " ", "/", " ", "G1">>, <<"1">>, <<"Hist">>, <<"Lit">>, <<"203">>)
RowNoGroup == Row(<<"5">>, <<>>, <<"1">>, <<"Math">>, <<"PE">>, <<"Gym">>)
RowG1Pair2 == Row(<<"6">>, <<"G1">>, <<"2">>, <<"Phys">>, <<"Draw">>, <<"205">>)

RowNoTeacher == Row(<<"7">>, <<"G1">>, <<"3">>, <<"Chem">>,
                    <<"Bio", " ", "(", "Ne ukazan", ")">>, <<"206">>)
RowTwoHalves == Row(<<"8">>, <<"G1">>, <<"2">>, <<"Phys">>,
                    <<"Phys", " ", "(", "Kim", ")", " ", "/", " ", "Chem", " ", "(", "Kim", ")">>,
                    <<"207">>)

RowChoices == {RowG1, RowCancel, RowB, RowJoint, RowNoGroup, RowG1Pair2,
               RowNoTeacher, RowTwoHalves}

Entities == {<<"G1">>, <<"A", "/", "B">>, <<"B">>, <<"ZZ">>}

RECURSIVE SeqsUpTo(_, _)
SeqsUpTo(S, n) == IF n = 0 THEN {<<>>}
                  ELSE LET shorter == SeqsUpTo(S, n - 1)
                       IN  shorter \cup {Append(q, x) : q \in shorter, x \in S}

\* what one `await client.get(url)` can come back with
OError == [kind |-> "error"]
DateTag10 == <<" ", "Izmeneniya", " ", "na", " ", "1", "0", " ", "noyabrya", " ",
               "2", "0", "2", "5", " ", "goda", " ">>
DateTag3 == <<"izmeneniya", " ", "na", " ", "3", " ", "noyabrya", " ",
              "2", "0", "2", "5", " ", "goda">>
Cells(row) == <<row["N"], <<" ">> \o row["Gruppa"] \o <<" ">>, row["Nomer_pary"],
                row["Distsiplina_po_raspisaniyu"], row["Distsiplina_po_zamene"],
                row["Auditoriya"]>>
ONoTable == [kind |-> "page", date_tag |-> DateTag10, has_table |-> FALSE, trs |-> <<>>]
PageA == [kind |-> "page", date_tag |-> DateTag10, has_table |-> TRUE,
          trs |-> << <<<<"N">>, <<"Gruppa">>>>, Cells(RowG1), SubSeq(Cells(RowCancel), 1, 5) >>]
PageB == [kind |-> "page", date_tag |-> DateTag3, has_table |-> TRUE,
          trs |-> << Cells(RowG1Pair2) >>]
AllOutcomes == {OError, ONoTable, PageA, PageB}
Outcomes == {OError, PageA}

TEACHERS_SCHEDULE == <<>>
DatetimeMin == 0

\* Sunday 2025-11-09 23:45: the clock crosses into the next ISO week
StartNow == (MakeDate(2025, 11, 9) - 1) * MinutesPerDay + 23 * 60 + 45
TargetDates == {MakeDate(2025, 11, 10)}
MergedEntities == {<<"G1">>}


---------------------------------------------------------------------------
(* fetch_replacements_data                                                 *)

InitCache == [replacements |-> <<>>, date_info |-> NEIZVESTNO, date_object |-> None,
              last_fetch_time |-> DatetimeMin, errors |-> <<>>]

\* NeedsRefresh with the cooldown window closed at its end (<= for <)
NeedsRefresh_Inclusive(force_update, t, cache) ==
    ~(~force_update /\ t - cache["last_fetch_time"] <= COOLDOWN_MINUTES)

\* lines 96-97: whether the call goes on to the upstream requests
NeedsRefresh(force_update, t, cache) ==
    ~(~force_update /\ t - cache["last_fetch_time"] < COOLDOWN_MINUTES)

\* the locals of a refresh as it starts
InitLocals == [rows |-> <<>>, date_info |-> DATA_NE_UKAZANA, date_object |-> None,
               errors |-> <<>>]

SourceShift(i) == <<DIGITS[i + 2], "-aya smena">>
ErrNoTable(i) == <<"X", " ">> \o SourceShift(i) \o <<":", " ", "Tablitsa zamen ne naydena.">>
ErrRequest(i) == <<"X", " ", "Oshibka pri zaprose k", " ">> \o SourceShift(i) \o <<":", " ", "exc">>

\* ExtractRows with a row taken when it has at least NHeaders - 1 cells, a
\* missing cell read as empty
RECURSIVE ExtractRows_Loose(_)
ExtractRows_Loose(trs) ==
    IF trs = <<>> THEN <<>>
    ELSE LET cells == Head(trs)
             cell(j) == IF j <= Len(cells) THEN Strip(cells[j]) ELSE <<>>
         IN  IF Len(cells) >= NHeaders - 1
             THEN <<Row(cell(1), cell(2), cell(3), cell(4), cell(5), cell(6))>>
                  \o ExtractRows_Loose(Tail(trs))
             ELSE ExtractRows_Loose(Tail(trs))

\* lines 126-131: the rows of a table with as many cells as there are headers
RECURSIVE ExtractRows(_)
ExtractRows(trs) ==
    IF trs = <<>> THEN <<>>
    ELSE LET cells == Head(trs)
         IN  IF Len(cells) = NHeaders
             THEN <<Row(Strip(cells[1]), Strip(cells[2]), Strip(cells[3]),
                        Strip(cells[4]), Strip(cells[5]), Strip(cells[6]))>>
                  \o ExtractRows(Tail(trs))
             ELSE ExtractRows(Tail(trs))

DateInfoText(o) == IF o["date_tag"] # <<>> THEN Strip(o["date_tag"]) ELSE DATA_NE_UKAZANA

\* ProcessSource with a handler that also throws away the rows collected so far
ProcessSource_DropRows(loc, i, o) ==
    IF o["kind"] = "error"
    THEN [loc EXCEPT !["errors"] = Append(@, ErrRequest(i)), !["rows"] = <<>>]
    ELSE IF ~o["has_table"]
    THEN [loc EXCEPT !["errors"] = Append(@, ErrNoTable(i))]
    ELSE LET loc1 == IF i = 0
                     THEN [loc EXCEPT !["date_info"] = DateInfoText(o),
                                      !["date_object"] = parse_russian_date(DateInfoText(o))]
                     ELSE loc
         IN  [loc1 EXCEPT !["rows"] = @ \o ExtractRows(o["trs"])]

\* ProcessSource without the test `if i == 0`: every source with a table sets
\* the date
ProcessSource_AnyDate(loc, i, o) ==
    IF o["kind"] = "error"
    THEN [loc EXCEPT !["errors"] = Append(@, ErrRequest(i))]
    ELSE IF ~o["has_table"]
    THEN [loc EXCEPT !["errors"] = Append(@, ErrNoTable(i))]
    ELSE [loc EXCEPT !["date_info"] = DateInfoText(o),
                     !["date_object"] = parse_russian_date(DateInfoText(o)),
                     !["rows"] = @ \o ExtractRows(o["trs"])]

\* lines 108-133: one pass of the loop, from the response o of source i on
ProcessSource(loc, i, o) ==
    IF o["kind"] = "error"
    THEN [loc EXCEPT !["errors"] = Append(@, ErrRequest(i))]
    ELSE IF ~o["has_table"]
    THEN [loc EXCEPT !["errors"] = Append(@, ErrNoTable(i))]
    ELSE LET loc1 == IF i = 0
                     THEN [loc EXCEPT !["date_info"] = DateInfoText(o),
                                      !["date_object"] = parse_russian_date(DateInfoText(o))]
                     ELSE loc
         IN  [loc1 EXCEPT !["rows"] = @ \o ExtractRows(o["trs"])]

\* what the refresh with locals loc publishes at clock value t
Snapshot(loc, t) == [replacements |-> loc["rows"], date_info |-> loc["date_info"],
                     date_object |-> loc["date_object"], last_fetch_time |-> t,
                     errors |-> loc["errors"]]

\* Publish that keeps the rows and the date of the dict when the refresh
\* collected no row
Publish_KeepOnFailure(cache, loc, t) ==
    IF loc["rows"] = <<>>
    THEN Update(cache, [last_fetch_time |-> t, errors |-> loc["errors"]])
    ELSE Update(cache, [replacements |-> loc["rows"], date_info |-> loc["date_info"],
                        date_object |-> loc["date_object"], last_fetch_time |-> t,
                        errors |-> loc["errors"]])

\* Publish with the "errors" key left out of the update
Publish_NoErrors(cache, loc, t) ==
    Update(cache, [replacements |-> loc["rows"], date_info |-> loc["date_info"],
                   date_object |-> loc["date_object"], last_fetch_time |-> t])

\* lines 135-139: REPLACEMENTS_CACHE.update({...})
Publish(cache, loc, t) ==
    Update(cache, [replacements |-> loc["rows"], date_info |-> loc["date_info"],
                   date_object |-> loc["date_object"], last_fetch_time |-> t,
                   errors |-> loc["errors"]])

---------------------------------------------------------------------------
(* get_schedule_for_display                                                *)

TargetViews == {"today", "tomorrow", "week"}

\* lines 253-254: the six day names of the loop
DisplayDays == SubSeq(DAY_NAMES, 1, 6)

\* lines 256-263: full_schedule_raw, the merged list of each of the six days
\* of the week that is current at clock value t, in the order of the loop
FullScheduleRaw(schedule_data, group_name, replacements_data, t) ==
    LET replacements_date_obj == Get(replacements_data, "date_object", None)
        replacements_list == Get(replacements_data, "replacements", <<>>)
        today == Today(t)
        monday == today - Weekday(today)
    IN  [day_index \in 1..Len(DisplayDays) |->
            LET day_date == monday + (day_index - 1)
                current_replacements ==
                    IF replacements_date_obj = day_date THEN replacements_list ELSE <<>>
                base_schedule == get_day_schedule(schedule_data, group_name,
                                                  DisplayDays[day_index], get_week_type(t))
            IN  apply_replacements_to_schedule(base_schedule, current_replacements,
                                               group_name, FALSE)]

\* lines 268-270: the date the views "today" and "tomorrow" are titled with
DisplayTargetDate(target_view, t) ==
    LET today == Today(t)
        target_date == IF target_view = "today" THEN today ELSE today + 1
    IN  IF Weekday(target_date) >= 6 THEN today + (7 - Weekday(today)) ELSE target_date

\* the return value of a handler that does not call get_schedule_for_display
NoDisplay == [full_schedule |-> <<>>, target_date |-> None, applied_date |-> None]

\* lines 247-282: full_schedule as the sequence of its items (day name and
\* list), the date of display_title (None for the week) and the date of
\* replacements_applied_to
get_schedule_for_display(schedule_data, group_name, target_view, replacements_data, t) ==
    LET raw == FullScheduleRaw(schedule_data, group_name, replacements_data, t)
        applied == Get(replacements_data, "date_object", None)
    IN  IF target_view = "week"
        THEN [full_schedule |-> [i \in 1..Len(DisplayDays) |->
                                    [day_name |-> DisplayDays[i], lessons |-> raw[i]]],
              target_date |-> None, applied_date |-> applied]
        ELSE LET target_date == DisplayTargetDate(target_view, t)
                 day_name == DAY_NAMES[Weekday(target_date) + 1]
                 found == {i \in 1..Len(DisplayDays) : DisplayDays[i] = day_name}
             IN  [full_schedule |->
                      <<[day_name |-> day_name,
                         lessons |-> IF found = {} THEN <<>>
                                     ELSE raw[CHOOSE i \in found : TRUE]]>>,
                  target_date |-> target_date, applied_date |-> applied]

---------------------------------------------------------------------------
(* The request tasks of the event loop.  At most NTasks run at a time.  A  *)
(* task is seen by the others only while it is suspended in                *)
(* `await client.get(url)`: inflight is the bag of the suspended calls,    *)
(* each with its arguments and locals and pc "get0" or "get1" (the request *)
(* to source 0 or 1 is out).  All that a task does between two awaits is   *)
(* one step.  lastReturn is the call that returned last: ref says what it  *)
(* returned, for fetch_replacements_data the global dict itself (a         *)
(* reference), for get_merged_daily_schedule a list, which is ret; given   *)
(* is the value the global dict had at the return.                         *)

NewCall == [pc |-> "call", kind |-> "none", force |-> FALSE,
            loc |-> InitLocals, o0 |-> OError,
            target_date |-> None, entity_name |-> <<>>, week_type |-> FALSE,
            base_schedule |-> <<>>, target_view |-> "none"]

NoReturn == [kind |-> "none", force |-> FALSE,
             fetched |-> FALSE, refreshed |-> FALSE, hit |-> FALSE,
             target_date |-> None, entity_name |-> <<>>, week_type |-> FALSE,
             ret |-> <<>>, ref |-> "none", given |-> InitCache,
             target_view |-> "none", shown |-> NoDisplay]

InFlight == BagToSet(inflight)
Suspend(c) == inflight (+) SetToBag({c})
Resume(c) == inflight (-) SetToBag({c})

CacheKey(target_date, is_teacher, entity_name) ==
    <<target_date, IF is_teacher THEN "teacher" ELSE "group", entity_name>>

\* MergedResult without the date test of line 240: the rows of the snapshot
\* are applied whatever its date_object is
MergedResult_NoGate(c, replacements_data) ==
    apply_replacements_to_schedule(c["base_schedule"], replacements_data["replacements"],
                                   c["entity_name"], FALSE)

\* lines 240-242 of get_merged_daily_schedule, after fetch_replacements_data returned
MergedResult(c, replacements_data) ==
    LET current_replacements ==
            IF replacements_data["date_object"] = c["target_date"]
            THEN replacements_data["replacements"] ELSE <<>>
    IN  apply_replacements_to_schedule(c["base_schedule"], current_replacements,
                                       c["entity_name"], FALSE)

\* line 243
StoreMerged(cache, key, merged_schedule) ==
    [k \in DOMAIN cache \cup {key} |-> IF k = key THEN merged_schedule ELSE cache[k]]

\* the record of call c as it returns
Returned(c, refreshed, ret, given) ==
    [kind |-> c["kind"], force |-> c["force"],
     fetched |-> TRUE, refreshed |-> refreshed, hit |-> FALSE,
     target_date |-> c["target_date"], entity_name |-> c["entity_name"],
     week_type |-> c["week_type"], ret |-> ret,
     ref |-> IF c["kind"] = "fetch" THEN "REPLACEMENTS_CACHE"
             ELSE IF c["kind"] = "show" THEN "response" ELSE "list",
     given |-> IF c["kind"] = "fetch" THEN given ELSE InitCache,
     target_view |-> c["target_view"], shown |-> NoDisplay]

\* the return of fetch_replacements_data in call c, and of the
\* get_merged_daily_schedule or show_schedule_handler around it when there
\* is one
Return(c, refreshed, cache) ==
    IF c["kind"] = "fetch"
    THEN /\ lastReturn' = Returned(c, refreshed, <<>>, cache)
         /\ UNCHANGED MERGED_SCHEDULE_CACHE
    ELSE IF c["kind"] = "show"
    THEN /\ lastReturn' =
                [Returned(c, refreshed, <<>>, cache) EXCEPT
                    !["shown"] = get_schedule_for_display(SCHEDULE, c["entity_name"],
                                                          c["target_view"], cache, now)]
         /\ UNCHANGED MERGED_SCHEDULE_CACHE
    ELSE LET merged_schedule == MergedResult(c, cache)
             key == CacheKey(c["target_date"], FALSE, c["entity_name"])
         IN  /\ MERGED_SCHEDULE_CACHE' =
                    StoreMerged(MERGED_SCHEDULE_CACHE, key, merged_schedule)
             /\ lastReturn' = Returned(c, refreshed, merged_schedule, cache)

\* lines 96-104: call c enters fetch_replacements_data
EnterFetch(c) ==
    IF NeedsRefresh(c["force"], now, REPLACEMENTS_CACHE)
    THEN /\ inflight' = Suspend([c EXCEPT !["pc"] = "get0", !["loc"] = InitLocals])
         /\ lastStart' = IF c["force"] THEN lastStart ELSE now
         /\ UNCHANGED <<REPLACEMENTS_CACHE, MERGED_SCHEDULE_CACHE, lastPublished,
                        lastOutcomes, lastReturn>>
    ELSE /\ Return(c, FALSE, REPLACEMENTS_CACHE)
         /\ UNCHANGED <<inflight, REPLACEMENTS_CACHE, lastPublished, lastOutcomes,
                        lastStart>>

FreeTask == BagCardinality(inflight) < NTasks

\* a handler calls fetch_replacements_data(force_update)
CallFetch(force_update) ==
    /\ FreeTask
    /\ EnterFetch([NewCall EXCEPT !["kind"] = "fetch", !["force"] = force_update])
    /\ UNCHANGED <<now, SCHEDULE, m>>

\* a handler calls get_merged_daily_schedule(target_date, entity_name)
CallMerged(target_date, entity_name) ==
    /\ FreeTask
    /\ LET key == CacheKey(target_date, FALSE, entity_name)
           c == [NewCall EXCEPT !["kind"] = "merged",
                                !["target_date"] = target_date,
                                !["entity_name"] = entity_name]
       IN  IF key \in DOMAIN MERGED_SCHEDULE_CACHE
           THEN /\ lastReturn' = [Returned(c, FALSE, MERGED_SCHEDULE_CACHE[key], InitCache)
                                     EXCEPT !["fetched"] = FALSE, !["hit"] = TRUE]
                /\ UNCHANGED <<inflight, REPLACEMENTS_CACHE, MERGED_SCHEDULE_CACHE,
                               lastPublished, lastOutcomes, lastStart>>
           ELSE LET day_name == DAY_NAMES[Weekday(target_date) + 1]
                    week_type == get_week_type(now)
                IN  EnterFetch([c EXCEPT !["week_type"] = week_type,
                                         !["base_schedule"] =
                                             get_day_schedule(SCHEDULE, entity_name,
                                                              day_name, week_type)])
    /\ UNCHANGED <<now, SCHEDULE, m>>

\* lines 349-357: show_schedule_handler for a group of the store
CallShow(group_name, view_type) ==
    /\ FreeTask
    /\ group_name \in DOMAIN SCHEDULE
    /\ EnterFetch([NewCall EXCEPT !["kind"] = "show",
                                  !["entity_name"] = group_name,
                                  !["target_view"] = view_type])
    /\ UNCHANGED <<now, SCHEDULE, m>>

\* the first source answers call c: the loop goes on to the request of the second
Respond0(c, o) ==
    /\ c \in InFlight /\ c["pc"] = "get0"
    /\ inflight' = Resume(c) (+) SetToBag({[c EXCEPT !["loc"] = ProcessSource(@, 0, o),
                                                     !["o0"] = o,
                                                     !["pc"] = "get1"]})
    /\ UNCHANGED <<now, REPLACEMENTS_CACHE, MERGED_SCHEDULE_CACHE, SCHEDULE,
                   lastPublished, lastOutcomes, lastReturn, lastStart, m>>

\* the second source answers call c: the cache is updated and the call returns
Respond1(c, o) ==
    /\ c \in InFlight /\ c["pc"] = "get1"
    /\ LET loc == ProcessSource(c["loc"], 1, o)
       IN  /\ REPLACEMENTS_CACHE' = Publish(REPLACEMENTS_CACHE, loc, now)
           /\ lastPublished' = Snapshot(loc, now)
           /\ lastOutcomes' = <<c["o0"], o>>
           /\ inflight' = Resume(c)
           /\ Return(c, TRUE, REPLACEMENTS_CACHE')
    /\ UNCHANGED <<now, SCHEDULE, lastStart, m>>

\* the request task of call c is cancelled while suspended: CancelledError
\* is no Exception, the call is abandoned
Cancel(c) ==
    /\ c \in InFlight
    /\ inflight' = Resume(c)
    /\ UNCHANGED <<now, REPLACEMENTS_CACHE, MERGED_SCHEDULE_CACHE, SCHEDULE,
                   lastPublished, lastOutcomes, lastReturn, lastStart, m>>

\* time passes
Tick ==
    /\ now < StartNow + MaxTicks * TickMinutes
    /\ now' = now + TickMinutes
    /\ UNCHANGED <<REPLACEMENTS_CACHE, MERGED_SCHEDULE_CACHE, SCHEDULE, inflight,
                   lastPublished, lastOutcomes, lastReturn, lastStart, m>>

MOff == [pc |-> "off"]

Init ==
    /\ now = StartNow
    /\ REPLACEMENTS_CACHE = InitCache
    /\ MERGED_SCHEDULE_CACHE = <<>>
    /\ SCHEDULE = StoreA
    /\ inflight = EmptyBag
    /\ lastPublished = InitCache
    /\ lastOutcomes = <<>>
    /\ lastReturn = NoReturn
    /\ lastStart = None
    /\ m = MOff

Next ==
    \/ \E force_update \in BOOLEAN : CallFetch(force_update)
    \/ \E d \in TargetDates, e \in MergedEntities : CallMerged(d, e)
    \/ \E c \in InFlight, o \in Outcomes : Respond0(c, o)
    \/ \E c \in InFlight, o \in Outcomes : Respond1(c, o)
    \/ \E c \in InFlight : Cancel(c)
    \/ Tick

Spec == Init /\ [][Next]_vars

\* one caller at a time: every call of fetch_replacements_data runs to its
\* return before the next is made; the sources answer with any of AllOutcomes
NextSeq ==
    \/ inflight = EmptyBag /\ \E force_update \in BOOLEAN : CallFetch(force_update)
    \/ \E c \in InFlight, o \in AllOutcomes : Respond0(c, o)
    \/ \E c \in InFlight, o \in AllOutcomes : Respond1(c, o)
    \/ Tick

SpecSeq == Init /\ [][NextSeq]_vars

\* one handler at a time, of the three kinds: fetch_replacements_data,
\* get_merged_daily_schedule and show_schedule_handler
NextGate ==
    \/ inflight = EmptyBag /\ \E force_update \in BOOLEAN : CallFetch(force_update)
    \/ inflight = EmptyBag /\ \E d \in TargetDates, e \in MergedEntities : CallMerged(d, e)
    \/ inflight = EmptyBag /\ \E e \in MergedEntities, v \in TargetViews : CallShow(e, v)
    \/ \E c \in InFlight, o \in AllOutcomes : Respond0(c, o)
    \/ \E c \in InFlight, o \in AllOutcomes : Respond1(c, o)
    \/ Tick

SpecGate == Init /\ [][NextGate]_vars

---------------------------------------------------------------------------
(* The merge as straight-line code: get_day_schedule, then                 *)
(* apply_replacements_to_schedule twice on the same objects.  m holds the  *)
(* arguments, the list objects base_schedule and all_replacements as they  *)
(* are in memory, and the two results.                                     *)

\* apply_replacements_call without the copies of line 194: the second loop
\* assigns to the pairs of the caller's list
apply_replacements_call_InPlace(base_schedule, all_replacements, entity_name, is_teacher) ==
    LET ret == apply_replacements_to_schedule(base_schedule, all_replacements,
                                              entity_name, is_teacher)
    IN  [ret |-> ret, base_schedule |-> ret, all_replacements |-> all_replacements]

\* what a call of apply_replacements_to_schedule returns and what it leaves
\* in the objects it was passed: line 194 copies every pair before the
\* second loop assigns to it, and the index is a local
apply_replacements_call(base_schedule, all_replacements, entity_name, is_teacher) ==
    [ret |-> apply_replacements_to_schedule(base_schedule, all_replacements,
                                            entity_name, is_teacher),
     base_schedule |-> base_schedule,
     all_replacements |-> all_replacements]

MergeInputs ==
    [pc : {"start"}, entity_name : Entities, day_name : {"Ponedelnik", "Vtornik"},
     week_type : BOOLEAN, is_teacher : BOOLEAN,
     all_replacements : SeqsUpTo(RowChoices, MaxRows),
     base_schedule : {<<>>}, out1 : {<<>>}, out2 : {<<>>}]

MGetDay ==
    /\ m["pc"] = "start"
    /\ LET r == get_day_schedule_call(SCHEDULE, m["entity_name"], m["day_name"],
                                      m["week_type"])
       IN  /\ m' = [m EXCEPT !["pc"] = "based", !["base_schedule"] = r["ret"]]
           /\ SCHEDULE' = r["schedule_data"]
    /\ UNCHANGED <<now, REPLACEMENTS_CACHE, MERGED_SCHEDULE_CACHE, inflight,
                   lastPublished, lastOutcomes, lastReturn, lastStart>>

MApply ==
    /\ m["pc"] \in {"based", "once"}
    /\ LET r == apply_replacements_call(m["base_schedule"], m["all_replacements"],
                                        m["entity_name"], m["is_teacher"])
       IN  m' = [m EXCEPT !["pc"] = IF m["pc"] = "based" THEN "once" ELSE "twice",
                          !["out1"] = IF m["pc"] = "based" THEN r["ret"] ELSE @,
                          !["out2"] = IF m["pc"] = "based" THEN @ ELSE r["ret"],
                          !["base_schedule"] = r["base_schedule"],
                          !["all_replacements"] = r["all_replacements"]]
    /\ UNCHANGED <<now, REPLACEMENTS_CACHE, MERGED_SCHEDULE_CACHE, SCHEDULE, inflight,
                   lastPublished, lastOutcomes, lastReturn, lastStart>>

InitMerge ==
    /\ now = StartNow
    /\ REPLACEMENTS_CACHE = InitCache
    /\ MERGED_SCHEDULE_CACHE = <<>>
    /\ SCHEDULE \in Stores
    /\ inflight = EmptyBag
    /\ lastPublished = InitCache
    /\ lastOutcomes = <<>>
    /\ lastReturn = NoReturn
    /\ lastStart = None
    /\ m \in MergeInputs

NextMerge == MGetDay \/ MApply

SpecMerge == InitMerge /\ [][NextMerge]_vars

---------------------------------------------------------------------------
(* The claims.                                                             *)

Elapsed == now - REPLACEMENTS_CACHE["last_fetch_time"]

\* a call enters the upstream requests in this step
Starts(c) == c["pc"] = "get0" /\ inflight' = Suspend(c)

\* a call of fetch_replacements_data returns its cached snapshot in this step
ReturnsCached == /\ lastReturn' # lastReturn
                 /\ lastReturn'["fetched"]
                 /\ ~lastReturn'["refreshed"]

\* C1: overlapping calls of fetch_replacements_data do not each perform their
\* own upstream requests: at most one refresh is in flight at any time.
C1_SingleFlight == BagCardinality(inflight) <= 1

\* C2: of two calls without force_update made less than COOLDOWN_MINUTES
\* apart at most one goes upstream: when such a call goes upstream, the last
\* one that did was made at least COOLDOWN_MINUTES before.
C2_Cooldown ==
    [][\A c \in BagToSet(inflight') :
          (Starts(c) /\ ~c["force"]) =>
              (lastStart = None \/ now - lastStart >= COOLDOWN_MINUTES)]_vars

\* C3: a call of fetch_replacements_data goes upstream if and only if
\* force_update is set or the snapshot is at least COOLDOWN_MINUTES old;
\* otherwise it returns the snapshot and changes no field of it and issues no
\* request.  The first call after start-up and a forced call always go upstream.
C3_RefreshDecision ==
    [][/\ \A c \in BagToSet(inflight') :
              Starts(c) => (c["force"] \/ Elapsed >= COOLDOWN_MINUTES)
       /\ ReturnsCached =>
              /\ ~lastReturn'["force"]
              /\ Elapsed < COOLDOWN_MINUTES
              /\ REPLACEMENTS_CACHE["last_fetch_time"] # DatetimeMin
              /\ REPLACEMENTS_CACHE' = REPLACEMENTS_CACHE
              /\ inflight' = inflight
              /\ (lastReturn'["kind"] = "fetch" =>
                     /\ lastReturn'["ref"] = "REPLACEMENTS_CACHE"
                     /\ lastReturn'["given"] = REPLACEMENTS_CACHE)]_vars

\* a snapshot aged exactly COOLDOWN_MINUTES sends a call without force_update
\* upstream, after a call that was served from the cache
C3_Witness ==
    /\ lastReturn["fetched"] /\ ~lastReturn["refreshed"]
    /\ Elapsed = COOLDOWN_MINUTES
    /\ lastStart = now
    /\ \E c \in InFlight : c["pc"] = "get0" /\ ~c["force"]

Failed(o) == o["kind"] = "error" \/ ~o["has_table"]
RowsOf(o) == IF Failed(o) THEN <<>> ELSE ExtractRows(o["trs"])
ErrorOf(i, o) == IF o["kind"] = "error" THEN ErrRequest(i) ELSE ErrNoTable(i)

\* C4: whatever the two sources answer, the refresh publishes a snapshot: a
\* failing source adds one error string and no rows, the other source is still
\* asked and its rows are kept; when both fail the rows are empty and the
\* errors are not.
C4_PartialFailure ==
    lastOutcomes # <<>> =>
        LET o1 == lastOutcomes[1]
            o2 == lastOutcomes[2]
        IN  /\ Len(lastOutcomes) = 2
            /\ REPLACEMENTS_CACHE["replacements"] = RowsOf(o1) \o RowsOf(o2)
            /\ REPLACEMENTS_CACHE["errors"] =
                   (IF Failed(o1) THEN <<ErrorOf(0, o1)>> ELSE <<>>)
                   \o (IF Failed(o2) THEN <<ErrorOf(1, o2)>> ELSE <<>>)
            /\ (Failed(o1) /\ Failed(o2)) =>
                   /\ REPLACEMENTS_CACHE["replacements"] = <<>>
                   /\ REPLACEMENTS_CACHE["errors"] # <<>>

\* the first source delivered rows and the second failed
C4_Witness ==
    /\ lastOutcomes = <<PageA, OError>>
    /\ REPLACEMENTS_CACHE["replacements"] # <<>>
    /\ Len(REPLACEMENTS_CACHE["errors"]) = 1

\* C5: at every point where another task can run the five fields of the
\* snapshot are those of one completed refresh (or the initial ones), and a
\* call that is abandoned in flight leaves the snapshot as it was.
C5_AtomicPublication ==
    /\ [](REPLACEMENTS_CACHE = lastPublished)
    /\ [][/\ REPLACEMENTS_CACHE' # REPLACEMENTS_CACHE =>
                \E c \in InFlight, o \in Outcomes :
                    /\ c["pc"] = "get1"
                    /\ inflight' = Resume(c)
                    /\ REPLACEMENTS_CACHE' = Snapshot(ProcessSource(c["loc"], 1, o), now)
          /\ \A c \in InFlight : Cancel(c) => REPLACEMENTS_CACHE' = REPLACEMENTS_CACHE]_vars

\* a refresh is half way (rows of the first source in its locals) while the
\* published snapshot, of an earlier refresh, still has none and has errors
C5_Witness ==
    /\ REPLACEMENTS_CACHE["last_fetch_time"] # DatetimeMin
    /\ REPLACEMENTS_CACHE["replacements"] = <<>>
    /\ REPLACEMENTS_CACHE["errors"] # <<>>
    /\ \E c \in InFlight : c["pc"] = "get1" /\ c["loc"]["rows"] # <<>>
                           /\ c["loc"]["date_object"] # None

\* C6: the snapshot a call of fetch_replacements_data returned never changes:
\* whoever holds the value returned last reads the same fields after any step.
C6_SnapshotImmutable ==
    [][lastReturn["kind"] = "fetch" =>
          (IF lastReturn["ref"] = "REPLACEMENTS_CACHE"
           THEN REPLACEMENTS_CACHE'
           ELSE lastReturn["given"]) = lastReturn["given"]]_vars

\* C7: once get_merged_daily_schedule has stored a result for a key, the entry
\* is never removed or overwritten, and a later call with the key returns it
\* without a call of fetch_replacements_data.
C7_Memoized ==
    [][/\ \A k \in DOMAIN MERGED_SCHEDULE_CACHE :
              /\ k \in DOMAIN MERGED_SCHEDULE_CACHE'
              /\ MERGED_SCHEDULE_CACHE'[k] = MERGED_SCHEDULE_CACHE[k]
       /\ (lastReturn' # lastReturn /\ lastReturn'["hit"]) =>
              /\ lastReturn'["ret"] =
                     MERGED_SCHEDULE_CACHE[CacheKey(lastReturn'["target_date"], FALSE,
                                                    lastReturn'["entity_name"])]
              /\ inflight' = inflight
              /\ REPLACEMENTS_CACHE' = REPLACEMENTS_CACHE]_vars

\* C8: the week parity a call of get_merged_daily_schedule filters the base
\* schedule with is that of the ISO week of its target date.
C8_TargetParity ==
    \A c \in InFlight :
        c["kind"] = "merged" => (c["week_type"] <=> (IsoWeek(c["target_date"]) % 2 = 0))

MBase == get_day_schedule(SCHEDULE, m["entity_name"], m["day_name"], m["week_type"])

\* C9: with no replacement rows and is_teacher false the result is the base
\* day schedule, pair by pair and in its order, none marked as a replacement.
C9_EmptyIdentity ==
    (m["pc"] \in {"once", "twice"} /\ m["all_replacements"] = <<>> /\ ~m["is_teacher"]) =>
        /\ Len(m["out1"]) = Len(MBase)
        /\ \A i \in 1..Len(MBase) :
               /\ m["out1"][i] = MBase[i]
               /\ m["out1"][i]["is_replacement"] = FALSE

C9_Witness ==
    /\ m["pc"] = "once" /\ m["all_replacements"] = <<>> /\ ~m["is_teacher"]
    /\ Len(m["out1"]) >= 2

---------------------------------------------------------------------------
(* The merge claims, stated over the scenario m: which row the two loops   *)
(* of apply_replacements_to_schedule select for a pair, by position.       *)

MRows == m["all_replacements"]

\* the candidate group tokens of a pair
MTokens(pair) ==
    IF m["is_teacher"]
    THEN <<IF "group" \in DOMAIN pair THEN pair["group"] ELSE <<"???">>>>
    ELSE LET parts == Split(m["entity_name"], "/")
         IN  [k \in 1..Len(parts) |-> Strip(parts[k])]

\* row names the group token with the pair number pn
RowNames(row, token, pn) ==
    /\ row["Gruppa"] # <<>>
    /\ row["Nomer_pary"] # <<>>
    /\ row["Nomer_pary"] = pn
    /\ LET cell == Split(row["Gruppa"], "/")
       IN  \E j \in 1..Len(cell) : Strip(cell[j]) = token

\* the candidates of a pair that some row names with the pair's number
MHitTokens(pair) ==
    {k \in 1..Len(MTokens(pair)) :
        \E r \in 1..Len(MRows) : RowNames(MRows[r], MTokens(pair)[k], PairNumStr(pair))}

MHasHit(pair) == MHitTokens(pair) # {}

\* the first candidate with a row, and the last row that names it
MFirstToken(pair) ==
    MTokens(pair)[CHOOSE k \in MHitTokens(pair) : \A j \in MHitTokens(pair) : k <= j]

MWinner(pair) ==
    MRows[CHOOSE r \in 1..Len(MRows) :
              /\ RowNames(MRows[r], MFirstToken(pair), PairNumStr(pair))
              /\ \A q \in (r + 1)..Len(MRows) :
                     ~RowNames(MRows[q], MFirstToken(pair), PairNumStr(pair))]

MApplied == m["pc"] \in {"once", "twice"}

\* C11: a pair whose applied row has the cancellation marker in its
\* replacement-lesson text is marked is_cancellation and is_replacement, and
\* the lesson and the classroom shown for it are those of the base schedule:
\* the lesson name without the teacher, and the base classroom.
C11_CancellationOriginal ==
    MApplied =>
        \A i \in 1..Len(MBase) :
            (/\ MHasHit(MBase[i])
             /\ Contains(MWinner(MBase[i])["Distsiplina_po_zamene"], CANCEL_MARK)) =>
                /\ Get(m["out1"][i], "is_cancellation", FALSE)
                /\ m["out1"][i]["is_replacement"]
                /\ KwgtLesson(m["out1"][i]) = MBase[i]["lesson"]
                /\ KwgtRoom(m["out1"][i]) = MBase[i]["old_classroom"]

\* the last row of the sequence that names the token with the pair's number
LastNaming(pair, token) ==
    MRows[CHOOSE r \in 1..Len(MRows) :
              /\ RowNames(MRows[r], token, PairNumStr(pair))
              /\ \A q \in (r + 1)..Len(MRows) : ~RowNames(MRows[q], token, PairNumStr(pair))]

\* C12: for a group entity named by several tokens joined with "/", a row
\* that names any one of the tokens with the pair's number is applied to the
\* pair when no earlier token of the entity name has a row for that number;
\* a row whose group cell is several tokens joined with "/" names each of them.
C12_JointGroup ==
    (MApplied /\ ~m["is_teacher"]) =>
        \A i \in 1..Len(MBase) :
            \A k \in MHitTokens(MBase[i]) :
                (\A j \in 1..(k - 1) : j \notin MHitTokens(MBase[i])) =>
                    LET row == LastNaming(MBase[i], MTokens(MBase[i])[k])
                    IN  /\ m["out1"][i]["is_replacement"]
                        /\ m["out1"][i]["classroom"] = row["Auditoriya"]
                        /\ m["out1"][i]["lesson"] =
                               get_teacher_from_lesson(row["Distsiplina_po_zamene"])[1]

\* entity "A/B": only the second token has a row, and the row is applied
C12_Witness ==
    /\ MApplied /\ ~m["is_teacher"]
    /\ Len(MTokens(<<>>)) = 2
    /\ \E i \in 1..Len(MBase) :
           /\ MHitTokens(MBase[i]) = {2}
           /\ m["out1"][i]["is_replacement"]
           /\ m["out1"][i]["classroom"] = LastNaming(MBase[i], MTokens(MBase[i])[2])["Auditoriya"]

\* the stored slots of the scenario's entity and weekday
MSlots ==
    IF m["entity_name"] \in DOMAIN SCHEDULE /\ m["day_name"] \in DOMAIN SCHEDULE[m["entity_name"]]
    THEN SCHEDULE[m["entity_name"]][m["day_name"]]
    ELSE <<>>

\* the slots the recurrence and the sentinel let through
MKept ==
    {i \in 1..Len(MSlots) :
        /\ \/ "type" \notin DOMAIN MSlots[i]
           \/ MSlots[i]["type"] = "Ezhenedelno"
           \/ (MSlots[i]["type"] = "Chetnaya" /\ m["week_type"])
           \/ (MSlots[i]["type"] = "Nechetnaya" /\ ~m["week_type"])
        /\ MSlots[i]["lesson"] # NET_PARY}

\* C13: get_day_schedule returns exactly the slots of the entity and weekday
\* that are weekly (or have no recurrence), or even-week with parity true, or
\* odd-week with parity false, and whose lesson is not the no-class sentinel,
\* in ascending order of pair number; nothing for an entity not in the store.
C13_BaseDaySchedule ==
    m["pc"] = "based" =>
        LET out == m["base_schedule"]
        IN  /\ (m["entity_name"] \notin DOMAIN SCHEDULE => out = <<>>)
            /\ Len(out) = Cardinality(MKept)
            /\ \A i \in MKept :
                   \E j \in 1..Len(out) : /\ out[j]["pair_num"] = MSlots[i]["pair_num"]
                                          /\ out[j]["old_lesson"] = MSlots[i]["lesson"]
            /\ \A j \in 1..(Len(out) - 1) : out[j]["pair_num"] <= out[j + 1]["pair_num"]
            /\ \A j \in 1..Len(out) : /\ out[j]["old_lesson"] # NET_PARY
                                      /\ out[j]["lesson"] # NET_PARY

\* a day with a slot of the other parity, a sentinel slot and two kept slots
\* stored in descending order of pair number
C13_Witness ==
    /\ m["pc"] = "based"
    /\ Len(m["base_schedule"]) = 2
    /\ Len(MSlots) = 4
    /\ {1, 2} \subseteq MKept
    /\ MSlots[1]["pair_num"] > MSlots[2]["pair_num"]
    /\ m["base_schedule"][1]["pair_num"] = MSlots[2]["pair_num"]
    /\ \E i \in 1..Len(MSlots) : MSlots[i]["lesson"] = NET_PARY

\* the rows of the sequence that name the token with the number pn
Naming(token, pn) == {r \in 1..Len(MRows) : RowNames(MRows[r], token, pn)}

\* C15: the index holds for a (group token, pair number) the last row of the
\* sequence that names it; a pair with several candidate tokens that have a
\* row gets the row of the first of them, and only that row.
C15_MergePrecedence ==
    MApplied =>
        /\ LET dict == ReplacementsDict(MRows)
           IN  /\ \A r \in 1..Len(MRows) : \A k \in RowKeys(MRows[r]) : k \in DOMAIN dict
               /\ \A k \in DOMAIN dict :
                      /\ Naming(k[1], k[2]) # {}
                      /\ dict[k] = MRows[CHOOSE r \in Naming(k[1], k[2]) :
                                             \A q \in Naming(k[1], k[2]) : q <= r]
        /\ \A i \in 1..Len(MBase) :
               MHasHit(MBase[i]) =>
                   LET row == MWinner(MBase[i])
                   IN  /\ m["out1"][i]["is_replacement"]
                       /\ m["out1"][i]["classroom"] = row["Auditoriya"]
                       /\ m["out1"][i]["lesson"] =
                              get_teacher_from_lesson(row["Distsiplina_po_zamene"])[1]
                       /\ m["out1"][i]["is_cancellation"] =
                              Contains(row["Distsiplina_po_zamene"], CANCEL_MARK)

\* two different rows name the same token and pair number: the pair shows
\* the classroom of the second
C15_Witness ==
    /\ MApplied
    /\ Len(MRows) = 2
    /\ MRows[1]["Auditoriya"] # MRows[2]["Auditoriya"]
    /\ \E i \in 1..Len(MBase) :
           /\ MHasHit(MBase[i])
           /\ Naming(MFirstToken(MBase[i]), PairNumStr(MBase[i])) = {1, 2}
           /\ m["out1"][i]["classroom"] = MRows[2]["Auditoriya"]

\* a row without a group or without a pair number
Unkeyed(row) == row["Gruppa"] = <<>> \/ row["Nomer_pary"] = <<>>

\* C16: a pair of the result is marked is_replacement only if some row has
\* the pair's number (as a string) and a group cell that, split on "/" and
\* trimmed, holds one of the pair's candidate tokens; a row without a group or
\* without a pair number is never applied; a pair without such a row is the
\* base pair, unchanged, with is_replacement false.
C16_NoMisapplied ==
    MApplied =>
        \A i \in 1..Len(MBase) :
            /\ m["out1"][i]["is_replacement"] =>
                   \E r \in 1..Len(MRows), k \in 1..Len(MTokens(MBase[i])) :
                       RowNames(MRows[r], MTokens(MBase[i])[k], PairNumStr(MBase[i]))
            /\ \A r \in 1..Len(MRows) :
                   (Unkeyed(MRows[r]) /\ m["out1"][i]["is_replacement"]) =>
                       m["out1"][i]["classroom"] # MRows[r]["Auditoriya"]
            /\ ~MHasHit(MBase[i]) =>
                   /\ m["out1"][i] = MBase[i]
                   /\ ~m["out1"][i]["is_replacement"]

\* a row without a group and a row for another pair: one pair is replaced,
\* the pair with the number of the row without a group is not
C16_Witness ==
    /\ MApplied
    /\ Len(MRows) = 2
    /\ Unkeyed(MRows[1]) /\ ~Unkeyed(MRows[2])
    /\ \E i, j \in 1..Len(MBase) :
           /\ m["out1"][i]["is_replacement"]
           /\ ~m["out1"][j]["is_replacement"]
           /\ PairNumStr(MBase[j]) = MRows[1]["Nomer_pary"]
           /\ m["out1"][j] = MBase[j]

\* a text with its first parenthesised group cut out, and the inside of
\* that group
WithoutFirstGroup(s) ==
    SubSeq(s, 1, ParenOpen(s) - 1) \o SubSeq(s, ParenClose(s) + 1, Len(s))

FirstGroupInside(s) == SubSeq(s, ParenOpen(s) + 1, ParenClose(s) - 1)

\* C17: a pair a row is applied to has as lesson the row's replacement text
\* with its first parenthesised group removed, and as teacher what is inside
\* that group when the text has one, else the teacher of the base pair; so also
\* when the first group is that of the cancellation marker.  (Compared up to
\* the blanks at both ends.)
C17_TeacherOverride ==
    MApplied =>
        \A i \in 1..Len(MBase) :
            MHasHit(MBase[i]) =>
                LET text == MWinner(MBase[i])["Distsiplina_po_zamene"]
                IN  IF HasParen(text)
                    THEN /\ m["out1"][i]["lesson"] = Strip(WithoutFirstGroup(text))
                         /\ m["out1"][i]["teacher"] = Strip(FirstGroupInside(text))
                    ELSE /\ m["out1"][i]["lesson"] = Strip(text)
                         /\ m["out1"][i]["teacher"] = MBase[i]["teacher"]

\* the slots of every entity and weekday of the store
StoreSlots ==
    UNION {UNION {{SCHEDULE[e][d][i] : i \in 1..Len(SCHEDULE[e][d])} :
                     d \in DOMAIN SCHEDULE[e]} :
              e \in DOMAIN SCHEDULE}

---------------------------------------------------------------------------
(* The claims about what a refresh publishes, over the two responses of    *)
(* the refresh that completed last.                                        *)

\* the source answered with a page that has a table
OkPage(o) == o["kind"] = "page" /\ o["has_table"]

\* the positions of the rows with NHeaders cells in the table of a source
SixIdx(o) == IF OkPage(o) THEN {i \in 1..Len(o["trs"]) : Len(o["trs"][i]) = NHeaders}
             ELSE {}

\* how many such rows there are up to position i
Rank(o, i) == Cardinality({j \in SixIdx(o) : j <= i})

\* the dict row holds the trimmed cells under the headers, in header order
HoldsCells(row, cells) ==
    /\ DOMAIN row = {REPLACEMENTS_HEADERS[h] : h \in 1..NHeaders}
    /\ \A h \in 1..NHeaders : row[REPLACEMENTS_HEADERS[h]] = Strip(cells[h])

C18_DateSource ==
    lastOutcomes # <<>> =>
        LET o1 == lastOutcomes[1]
        IN  IF OkPage(o1)
            THEN /\ REPLACEMENTS_CACHE["date_info"] = Strip(o1["date_tag"])
                 /\ REPLACEMENTS_CACHE["date_object"] =
                        parse_russian_date(Strip(o1["date_tag"]))
            ELSE /\ REPLACEMENTS_CACHE["date_info"] = DATA_NE_UKAZANA
                 /\ REPLACEMENTS_CACHE["date_object"] = None

\* the first source failed and the second answered with a dated page
C18_Witness ==
    /\ lastOutcomes = <<OError, PageB>>
    /\ parse_russian_date(Strip(PageB["date_tag"])) = MakeDate(2025, 11, 3)
    /\ REPLACEMENTS_CACHE["replacements"] = <<RowG1Pair2>>
    /\ REPLACEMENTS_CACHE["date_object"] = None

---------------------------------------------------------------------------
(* The claims about get_merged_daily_schedule over the request tasks.      *)

\* the slots a day schedule is made of, by pair number and stored lesson
SlotsOf(schedule) == [i \in 1..Len(schedule) |->
                         <<schedule[i]["pair_num"], schedule[i]["old_lesson"]>>]

\* C19: the schedule a call of get_merged_daily_schedule returns is filtered
\* with the parity of the week that is current when the call is made, also
\* when the same date and entity were asked for in an earlier week.  (Stated
\* for the calls that return in the step in which they are made.)
C19_ParityPerCall ==
    [][(/\ lastReturn' # lastReturn
        /\ lastReturn'["kind"] = "merged"
        /\ inflight' = inflight) =>
           SlotsOf(lastReturn'["ret"]) =
               SlotsOf(get_day_schedule(SCHEDULE, lastReturn'["entity_name"],
                                        DAY_NAMES[Weekday(lastReturn'["target_date"]) + 1],
                                        get_week_type(now)))]_vars


\* the memo key of a call of get_merged_daily_schedule
KeyOf(c) == CacheKey(c["target_date"], FALSE, c["entity_name"])

\* call c of get_merged_daily_schedule comes back from
\* fetch_replacements_data in this step, or is abandoned
Leaves(c) == c["kind"] = "merged" /\ c["pc"] = "get1" /\ inflight' = Resume(c)

\* C21: two calls of get_merged_daily_schedule that both missed the memo
\* cache for one key compute equal results: when the later of them comes
\* back and finds the entry of the other, what it stores and returns is that
\* entry, whatever the order of their steps and of the refreshes.
C21_DuplicateIdempotent ==
    [][\A c \in InFlight :
          (Leaves(c) /\ KeyOf(c) \in DOMAIN MERGED_SCHEDULE_CACHE) =>
              /\ MERGED_SCHEDULE_CACHE'[KeyOf(c)] = MERGED_SCHEDULE_CACHE[KeyOf(c)]
              /\ lastReturn'["kind"] = "merged" =>
                     lastReturn'["ret"] = MERGED_SCHEDULE_CACHE[KeyOf(c)]]_vars

---------------------------------------------------------------------------
(* The date gate of the replacements.                                      *)

\* a handler returns in this step (SpecGate has no cancellation)
ReturnsNow == \/ lastReturn' # lastReturn
              \/ \E c \in InFlight : c["pc"] = "get1" /\ inflight' = Resume(c)

\* no lesson of the list is marked as a replacement
Unreplaced(schedule) == \A i \in 1..Len(schedule) : ~schedule[i]["is_replacement"]

\* the base day schedule of a group on the date d, in the week of parity week_type
BaseOn(group_name, d, week_type) ==
    get_day_schedule(SCHEDULE, group_name, DAY_NAMES[Weekday(d) + 1], week_type)

\* the date of the day called day_name in the week that is current at clock value t
DateInWeek(day_name, t) ==
    Today(t) - Weekday(Today(t)) + (CHOOSE i \in 1..7 : DAY_NAMES[i] = day_name) - 1

\* the snapshot the returning handler was given: the dict as it is after the step
GivenDate == REPLACEMENTS_CACHE'["date_object"]

\* C22: get_merged_daily_schedule (when it computes) and
\* get_schedule_for_display apply the rows of the snapshot to a day only when
\* the snapshot's date_object is that day's date; for any other date, and
\* whenever date_object is None, also with rows in the snapshot, the result is
\* the base day schedule with is_replacement False on every lesson.
C22_DateGate ==
    [][ReturnsNow =>
          /\ (lastReturn'["kind"] = "merged" /\ lastReturn'["fetched"]) =>
                 LET ret == lastReturn'["ret"]
                     target_date == lastReturn'["target_date"]
                 IN  /\ ~Unreplaced(ret) => GivenDate = target_date
                     /\ (GivenDate # target_date \/ GivenDate = None) =>
                            /\ ret = BaseOn(lastReturn'["entity_name"], target_date,
                                            lastReturn'["week_type"])
                            /\ Unreplaced(ret)
          /\ lastReturn'["kind"] = "show" =>
                 \A i \in 1..Len(lastReturn'["shown"]["full_schedule"]) :
                     LET item == lastReturn'["shown"]["full_schedule"][i]
                         day_date == DateInWeek(item["day_name"], now)
                     IN  /\ ~Unreplaced(item["lessons"]) => GivenDate = day_date
                         /\ (GivenDate # day_date \/ GivenDate = None) =>
                                /\ item["lessons"] =
                                       BaseOn(lastReturn'["entity_name"], day_date,
                                              get_week_type(now))
                                /\ Unreplaced(item["lessons"])]_vars

\* a computing call of get_merged_daily_schedule has returned the base
\* schedule although the snapshot holds a row for its first lesson: the
\* first source failed, the second delivered the row
C22_Witness ==
    /\ lastReturn["kind"] = "merged" /\ lastReturn["refreshed"]
    /\ lastOutcomes = <<OError, PageA>>
    /\ REPLACEMENTS_CACHE["date_object"] = None
    /\ REPLACEMENTS_CACHE["replacements"] = <<RowG1>>
    /\ lastReturn["ret"] # <<>>
    /\ lastReturn["ret"][1]["pair_num"] = 1
    /\ Unreplaced(lastReturn["ret"])

---------------------------------------------------------------------------
(* A refresh in which both sources fail.                                   *)

\* the refresh that completed last had both its sources failing
BothFailed == /\ lastOutcomes # <<>>
              /\ Failed(lastOutcomes[1]) /\ Failed(lastOutcomes[2])

\* a refresh completes in this step (SpecGate has no cancellation)
Completes == \E c \in InFlight : c["pc"] = "get1" /\ inflight' = Resume(c)

\* C23: a refresh in which both sources fail replaces the published rows and
\* date by no rows and no date and sets last_fetch_time to the time of its
\* completion; while that snapshot is younger than COOLDOWN_MINUTES a call
\* without force_update returns it, empty, and issues no request.
C23_FailedRefresh ==
    [][/\ (Completes /\ BothFailed') =>
              REPLACEMENTS_CACHE' =
                  [replacements |-> <<>>, date_info |-> DATA_NE_UKAZANA,
                   date_object |-> None, last_fetch_time |-> now,
                   errors |-> <<ErrorOf(0, lastOutcomes'[1]),
                                ErrorOf(1, lastOutcomes'[2])>>]
       /\ (inflight = EmptyBag /\ now' = now /\ BothFailed
              /\ Elapsed < COOLDOWN_MINUTES) =>
              /\ \A c \in BagToSet(inflight') : c["force"]
              /\ REPLACEMENTS_CACHE' = REPLACEMENTS_CACHE
              /\ REPLACEMENTS_CACHE'["replacements"] = <<>>
              /\ REPLACEMENTS_CACHE'["date_object"] = None
              /\ inflight' = inflight =>
                     /\ ~lastReturn'["refreshed"]
                     /\ lastReturn'["kind"] = "fetch" =>
                            /\ lastReturn'["ref"] = "REPLACEMENTS_CACHE"
                            /\ lastReturn'["given"] = REPLACEMENTS_CACHE]_vars

\* rows dated 10 November were published and merged into a stored day; a
\* later refresh failed on both sources, and a call without force_update made
\* within its cooldown has been answered with the empty snapshot
C23_Witness ==
    /\ BothFailed
    /\ \E k \in DOMAIN MERGED_SCHEDULE_CACHE : ~Unreplaced(MERGED_SCHEDULE_CACHE[k])
    /\ lastReturn["kind"] = "fetch" /\ ~lastReturn["force"] /\ ~lastReturn["refreshed"]
    /\ lastReturn["given"] = REPLACEMENTS_CACHE
    /\ REPLACEMENTS_CACHE["replacements"] = <<>>
    /\ Len(REPLACEMENTS_CACHE["errors"]) = 2
    /\ 0 < Elapsed /\ Elapsed < COOLDOWN_MINUTES
    /\ inflight = EmptyBag

=============================================================================
